---- MODULE Spec2Model ----
(***************************************************************************)
(* Model of src/pprof.rs: the PProf profile aggregator.                    *)
(*                                                                         *)
(* Rust vectors are TLA+ sequences (Rust index i is TLA+ position i + 1),  *)
(* HashMaps are functions with a finite domain, Option<T> is a sequence of *)
(* length 0 (None) or 1 (Some).  A method `fn m(&mut self, a) -> r` is an  *)
(* operator m(me, a) that returns [me |-> the struct afterwards,           *)
(* ret |-> r].                                                             *)
(***************************************************************************)
EXTENDS Integers, Sequences, FiniteSets, TLC

\* ------------------------------------------------------------------------
\* Bounds of the model
\* ------------------------------------------------------------------------
\* record calls in a behaviour of Spec
MaxRecords == 2

\* frames in one stack of SpecRepeat
MaxDepth == 2

\* record calls in a behaviour of SpecRepeat
MaxRepeat == 3

\* record calls in a behaviour of SpecFrames
MaxFrameRecords == 4

\* record calls in a behaviour of SpecPeriod
MaxPeriodRecords == 2

\* record calls in a behaviour of SpecOrder
MaxOrderRecords == 2

\* ------------------------------------------------------------------------
\* Inputs
\* ------------------------------------------------------------------------
Names == {"foo", "bar"}

Filenames == {"a.py", "b.py"}

Lines == {10, 20}

ThreadIds == {1, 5}

Pids == {100, 200}

ThreadNames == {<<>>, <<"main">>}

SamplingRates == {1, 100}

Frame == [name : Names, filename : Filenames, line : Lines]

RECURSIVE SeqsUpTo(_, _)
SeqsUpTo(S, n) ==
    IF n = 0 THEN {<<>>}
    ELSE LET shorter == SeqsUpTo(S, n - 1)
         IN  shorter \cup {Append(q, x) : q \in shorter, x \in S}

Traces(tids, pids, tnames, frames) ==
    [thread_id : tids, pid : pids, thread_name : tnames,
     frames : SeqsUpTo(frames, MaxDepth)]

TwoFrames == {[name |-> "foo", filename |-> "a.py", line |-> 10],
              [name |-> "bar", filename |-> "a.py", line |-> 20]}

\* the stacks of Spec: two threads, named or not, with no, one or two frames
ProgramStacks ==
    [thread_id : ThreadIds, pid : {100}, thread_name : ThreadNames,
     frames : {<<>>,
               <<[name |-> "foo", filename |-> "a.py", line |-> 10]>>,
               <<[name |-> "foo", filename |-> "a.py", line |-> 10],
                 [name |-> "bar", filename |-> "a.py", line |-> 20]>>,
               <<[name |-> "bar", filename |-> "a.py", line |-> 20],
                 [name |-> "foo", filename |-> "a.py", line |-> 10]>>}]

\* the stacks of SpecRepeat: any thread, pid and thread name over two frames
RepeatStacks == Traces(ThreadIds, Pids, ThreadNames, TwoFrames)

\* the stacks of SpecOrder: two unnamed threads, every sequence of two frames
OrderStacks == Traces(ThreadIds, {100}, {<<>>}, TwoFrames)

\* the stacks of SpecFrames: one thread, one frame of any kind per stack
OneThreadStacks == [thread_id : {5}, pid : {100}, thread_name : {<<"main">>},
                    frames : {<<f>> : f \in Frame}]

Config == [sampling_rate : SamplingRates, show_line_numbers : BOOLEAN]

\* the configurations of SpecPeriod: rates that divide 10^9 and rates that do not
PeriodRates == {1, 3, 7, 100, 1000000000}

PeriodConfig == [sampling_rate : PeriodRates, show_line_numbers : BOOLEAN]

\* the stacks of SpecPeriod
PeriodStacks ==
    {[thread_id |-> 1, pid |-> 100, thread_name |-> <<>>, frames |-> <<>>],
     [thread_id |-> 5, pid |-> 100, thread_name |-> <<"main">>,
      frames |-> <<[name |-> "foo", filename |-> "a.py", line |-> 10]>>]}

\* ------------------------------------------------------------------------
\* Helpers
\* ------------------------------------------------------------------------
EmptyMap == [k \in {} |-> 0]

None == <<>>

Some(x) == <<x>>

\* Default::default() of the integer and string-index fields
unset == 0

\* The `as i64` / `as u64` casts of lengths, lines, thread ids and pids keep the
\* value for every input below 2^63, which covers all the inputs of this model.

\* ------------------------------------------------------------------------
\* State: the fields of struct PProf, and what the caller observes
\* ------------------------------------------------------------------------
VARIABLES config, string_index, function_id, location_id, sample_index,
          profile, calls, last, encoded

pprof == <<config, string_index, function_id, location_id, sample_index, profile>>

vars == <<config, string_index, function_id, location_id, sample_index,
          profile, calls, last, encoded>>

Self == [config |-> config, string_index |-> string_index,
         function_id |-> function_id, location_id |-> location_id,
         sample_index |-> sample_index, profile |-> profile]

\* ------------------------------------------------------------------------
\* Methods
\* ------------------------------------------------------------------------
\* get_string_index without the lookup: every call appends
get_string_index_no_lookup(me, str) ==
    LET i == Len(me.profile.string_table)
    IN  [me |-> [me EXCEPT !.string_index =
                               [k \in DOMAIN @ \cup {str} |-> IF k = str THEN i ELSE @[k]],
                           !.profile.string_table = Append(@, str)],
         ret |-> i]

get_string_index(me, str) ==
    IF str \in DOMAIN me.string_index
    THEN [me |-> me, ret |-> me.string_index[str]]
    ELSE LET i == Len(me.profile.string_table)
         IN  [me |-> [me EXCEPT !.string_index = @ @@ (str :> i),
                                !.profile.string_table = Append(@, str)],
              ret |-> i]

\* get_function_id that numbers the functions from 0
get_function_id_zero_based(me, key) ==
    IF key \in DOMAIN me.function_id
    THEN [me |-> me, ret |-> me.function_id[key]]
    ELSE LET id == Len(me.profile.function)
         IN  [me |-> [me EXCEPT !.profile.function =
                                    Append(@, [id |-> id,
                                               name |-> key.name,
                                               system_name |-> unset,
                                               filename |-> key.filename,
                                               start_line |-> unset]),
                                !.function_id = @ @@ (key :> id)],
              ret |-> id]

get_function_id(me, key) ==
    IF key \in DOMAIN me.function_id
    THEN [me |-> me, ret |-> me.function_id[key]]
    ELSE LET id == Len(me.profile.function) + 1
         IN  [me |-> [me EXCEPT !.profile.function =
                                    Append(@, [id |-> id,
                                               name |-> key.name,
                                               system_name |-> unset,
                                               filename |-> key.filename,
                                               start_line |-> unset]),
                                !.function_id = @ @@ (key :> id)],
              ret |-> id]

\* get_location_id that numbers the locations from 0
get_location_id_zero_based(me, key) ==
    IF key \in DOMAIN me.location_id
    THEN [me |-> me, ret |-> me.location_id[key]]
    ELSE LET id == Len(me.profile.location)
         IN  [me |-> [me EXCEPT !.profile.location =
                                    Append(@, [id |-> id,
                                               mapping_id |-> unset,
                                               address |-> unset,
                                               line |-> <<[function_id |-> key.function_id,
                                                           line |-> IF me.config.show_line_numbers
                                                                    THEN key.line
                                                                    ELSE unset,
                                                           column |-> unset]>>,
                                               is_folded |-> FALSE]),
                                !.location_id = @ @@ (key :> id)],
              ret |-> id]

\* get_location_id that stores the key's line whatever the configuration says
get_location_id_keeps_line(me, key) ==
    IF key \in DOMAIN me.location_id
    THEN [me |-> me, ret |-> me.location_id[key]]
    ELSE LET id == Len(me.profile.location) + 1
         IN  [me |-> [me EXCEPT !.profile.location =
                                    Append(@, [id |-> id,
                                               mapping_id |-> unset,
                                               address |-> unset,
                                               line |-> <<[function_id |-> key.function_id,
                                                           line |-> key.line,
                                                           column |-> unset]>>,
                                               is_folded |-> FALSE]),
                                !.location_id = @ @@ (key :> id)],
              ret |-> id]

get_location_id(me, key) ==
    IF key \in DOMAIN me.location_id
    THEN [me |-> me, ret |-> me.location_id[key]]
    ELSE LET id == Len(me.profile.location) + 1
         IN  [me |-> [me EXCEPT !.profile.location =
                                    Append(@, [id |-> id,
                                               mapping_id |-> unset,
                                               address |-> unset,
                                               line |-> <<[function_id |-> key.function_id,
                                                           line |-> IF me.config.show_line_numbers
                                                                    THEN key.line
                                                                    ELSE unset,
                                                           column |-> unset]>>,
                                               is_folded |-> FALSE]),
                                !.location_id = @ @@ (key :> id)],
              ret |-> id]

\* add_frame that applies the line policy to the Location key as well
add_frame_policy_on_key(me, frame) ==
    LET n == get_string_index(me, frame.name)
        f == get_string_index(n.me, frame.filename)
        fn == get_function_id(f.me, [name |-> n.ret, filename |-> f.ret])
    IN  get_location_id(fn.me, [function_id |-> fn.ret,
                                line |-> IF me.config.show_line_numbers
                                         THEN frame.line ELSE unset])

\* add_frame that keys the Function by the name alone
add_frame_name_only(me, frame) ==
    LET n == get_string_index(me, frame.name)
        f == get_string_index(n.me, frame.filename)
        fn == get_function_id(f.me, [name |-> n.ret, filename |-> n.ret])
    IN  get_location_id(fn.me, [function_id |-> fn.ret, line |-> frame.line])

add_frame(me, frame) ==
    LET n == get_string_index(me, frame.name)
        f == get_string_index(n.me, frame.filename)
        fn == get_function_id(f.me, [name |-> n.ret, filename |-> f.ret])
    IN  get_location_id(fn.me, [function_id |-> fn.ret, line |-> frame.line])

make_label(me, key, value) ==
    LET k == get_string_index(me, key)
        v == get_string_index(k.me, value)
    IN  [me |-> v.me,
         ret |-> [key |-> k.ret, str |-> v.ret, num |-> unset, num_unit |-> 0]]

make_label_num(me, key, num) ==
    LET k == get_string_index(me, key)
    IN  [me |-> k.me,
         ret |-> [key |-> k.ret, str |-> unset, num |-> num, num_unit |-> 0]]

\* the label vector with the pid label before the thread_id label
make_labels_pid_first(me, stack) ==
    LET tn == IF stack.thread_name # None
              THEN make_label(me, "thread_name", stack.thread_name[1])
              ELSE [me |-> me, ret |-> None]
        label0 == IF stack.thread_name # None THEN <<tn.ret>> ELSE <<>>
        pi == make_label_num(tn.me, "pid", stack.pid)
        ti == make_label_num(pi.me, "thread_id", stack.thread_id)
    IN  [me |-> ti.me, ret |-> label0 \o <<pi.ret, ti.ret>>]

\* the label vector of a new sample
make_labels(me, stack) ==
    LET tn == IF stack.thread_name # None
              THEN make_label(me, "thread_name", stack.thread_name[1])
              ELSE [me |-> me, ret |-> None]
        label0 == IF stack.thread_name # None THEN <<tn.ret>> ELSE <<>>
        ti == make_label_num(tn.me, "thread_id", stack.thread_id)
        pi == make_label_num(ti.me, "pid", stack.pid)
    IN  [me |-> pi.me, ret |-> label0 \o <<ti.ret, pi.ret>>]

\* get_sample_index with one lookup shared by all threads
get_sample_index_one_map(me, frames, stack) ==
    LET outer == IF 0 \in DOMAIN me.sample_index
                 THEN me.sample_index
                 ELSE me.sample_index @@ (0 :> EmptyMap)
        innermap == outer[0]
        me0 == [me EXCEPT !.sample_index = outer]
    IN  IF frames \in DOMAIN innermap
        THEN [me |-> me0, ret |-> innermap[frames]]
        ELSE LET i == Len(me.profile.sample)
                 me1 == [me0 EXCEPT !.sample_index[0] = @ @@ (frames :> i)]
                 label == make_labels(me1, stack)
             IN  [me |-> [label.me EXCEPT !.profile.sample =
                                             Append(@, [location_id |-> frames,
                                                        value |-> <<0>>,
                                                        label |-> label.ret])],
                  ret |-> i]

\* get_sample_index that refreshes the labels of the sample it finds
get_sample_index_relabel(me, frames, stack) ==
    LET outer == IF stack.thread_id \in DOMAIN me.sample_index
                 THEN me.sample_index
                 ELSE me.sample_index @@ (stack.thread_id :> EmptyMap)
        innermap == outer[stack.thread_id]
        me0 == [me EXCEPT !.sample_index = outer]
    IN  IF frames \in DOMAIN innermap
        THEN LET label == make_labels(me0, stack)
             IN  [me |-> [label.me EXCEPT
                              !.profile.sample[innermap[frames] + 1].label = label.ret],
                  ret |-> innermap[frames]]
        ELSE LET i == Len(me.profile.sample)
                 me1 == [me0 EXCEPT !.sample_index[stack.thread_id] = @ @@ (frames :> i)]
                 label == make_labels(me1, stack)
             IN  [me |-> [label.me EXCEPT !.profile.sample =
                                             Append(@, [location_id |-> frames,
                                                        value |-> <<0>>,
                                                        label |-> label.ret])],
                  ret |-> i]

\* get_sample_index that replaces the thread's lookup on a miss
get_sample_index_forgets(me, frames, stack) ==
    LET outer == IF stack.thread_id \in DOMAIN me.sample_index
                 THEN me.sample_index
                 ELSE me.sample_index @@ (stack.thread_id :> EmptyMap)
        innermap == outer[stack.thread_id]
        me0 == [me EXCEPT !.sample_index = outer]
    IN  IF frames \in DOMAIN innermap
        THEN [me |-> me0, ret |-> innermap[frames]]
        ELSE LET i == Len(me.profile.sample)
                 me1 == [me0 EXCEPT !.sample_index[stack.thread_id] = (frames :> i)]
                 label == make_labels(me1, stack)
             IN  [me |-> [label.me EXCEPT !.profile.sample =
                                             Append(@, [location_id |-> frames,
                                                        value |-> <<0>>,
                                                        label |-> label.ret])],
                  ret |-> i]

\* get_sample_index that builds the labels before it looks the key up
get_sample_index_eager_labels(me, frames, stack) ==
    LET outer == IF stack.thread_id \in DOMAIN me.sample_index
                 THEN me.sample_index
                 ELSE me.sample_index @@ (stack.thread_id :> EmptyMap)
        innermap == outer[stack.thread_id]
        me0 == [me EXCEPT !.sample_index = outer]
        label == make_labels(me0, stack)
    IN  IF frames \in DOMAIN innermap
        THEN [me |-> label.me, ret |-> innermap[frames]]
        ELSE LET i == Len(me.profile.sample)
             IN  [me |-> [label.me EXCEPT
                              !.sample_index[stack.thread_id] = @ @@ (frames :> i),
                              !.profile.sample =
                                  Append(@, [location_id |-> frames,
                                             value |-> <<0>>,
                                             label |-> label.ret])],
                  ret |-> i]

\* get_sample_index whose new Sample starts with the counter at 1
get_sample_index_starts_at_one(me, frames, stack) ==
    LET outer == IF stack.thread_id \in DOMAIN me.sample_index
                 THEN me.sample_index
                 ELSE me.sample_index @@ (stack.thread_id :> EmptyMap)
        innermap == outer[stack.thread_id]
        me0 == [me EXCEPT !.sample_index = outer]
    IN  IF frames \in DOMAIN innermap
        THEN [me |-> me0, ret |-> innermap[frames]]
        ELSE LET i == Len(me.profile.sample)
                 me1 == [me0 EXCEPT !.sample_index[stack.thread_id] = @ @@ (frames :> i)]
                 label == make_labels(me1, stack)
             IN  [me |-> [label.me EXCEPT !.profile.sample =
                                             Append(@, [location_id |-> frames,
                                                        value |-> <<1>>,
                                                        label |-> label.ret])],
                  ret |-> i]

\* get_sample_index that takes the index after the push: the length, not the
\* position of the new Sample
get_sample_index_after_push(me, frames, stack) ==
    LET outer == IF stack.thread_id \in DOMAIN me.sample_index
                 THEN me.sample_index
                 ELSE me.sample_index @@ (stack.thread_id :> EmptyMap)
        innermap == outer[stack.thread_id]
        me0 == [me EXCEPT !.sample_index = outer]
    IN  IF frames \in DOMAIN innermap
        THEN [me |-> me0, ret |-> innermap[frames]]
        ELSE LET i == Len(me.profile.sample) + 1
                 me1 == [me0 EXCEPT !.sample_index[stack.thread_id] = @ @@ (frames :> i)]
                 label == make_labels(me1, stack)
             IN  [me |-> [label.me EXCEPT !.profile.sample =
                                             Append(@, [location_id |-> frames,
                                                        value |-> <<0>>,
                                                        label |-> label.ret])],
                  ret |-> i]

get_sample_index(me, frames, stack) ==
    LET outer == IF stack.thread_id \in DOMAIN me.sample_index
                 THEN me.sample_index
                 ELSE me.sample_index @@ (stack.thread_id :> EmptyMap)
        innermap == outer[stack.thread_id]
        me0 == [me EXCEPT !.sample_index = outer]
    IN  IF frames \in DOMAIN innermap
        THEN [me |-> me0, ret |-> innermap[frames]]
        ELSE LET i == Len(me.profile.sample)
                 me1 == [me0 EXCEPT !.sample_index[stack.thread_id] = @ @@ (frames :> i)]
                 label == make_labels(me1, stack)
             IN  [me |-> [label.me EXCEPT !.profile.sample =
                                             Append(@, [location_id |-> frames,
                                                        value |-> <<0>>,
                                                        label |-> label.ret])],
                  ret |-> i]

\* the frames resolved in order, the ids collected in reverse
RECURSIVE add_frames_reversed(_, _)
add_frames_reversed(me, frames) ==
    IF frames = <<>>
    THEN [me |-> me, ret |-> <<>>]
    ELSE LET h == add_frame(me, Head(frames))
             t == add_frames_reversed(h.me, Tail(frames))
         IN  [me |-> t.me, ret |-> t.ret \o <<h.ret>>]

\* stack.frames.iter().map(|frame| self.add_frame(frame)).collect()
RECURSIVE add_frames(_, _)
add_frames(me, frames) ==
    IF frames = <<>>
    THEN [me |-> me, ret |-> <<>>]
    ELSE LET h == add_frame(me, Head(frames))
             t == add_frames(h.me, Tail(frames))
         IN  [me |-> t.me, ret |-> <<h.ret>> \o t.ret]

\* record that sets the counter to 1 instead of adding 1
record_sets_one(me, stack) ==
    LET fr == add_frames(me, stack.frames)
        si == get_sample_index(fr.me, fr.ret, stack)
    IN  [me |-> [si.me EXCEPT !.profile.sample[si.ret + 1].value[1] = 1],
         ret |-> "Ok", frames |-> fr.ret, sample_index |-> si.ret]

\* self.profile.sample[sample_index].value[0] panics when an index is out of
\* bounds: the call then does not return Ok and the counter is not touched
record(me, stack) ==
    LET fr == add_frames(me, stack.frames)
        si == get_sample_index(fr.me, fr.ret, stack)
        in_bounds == /\ si.ret + 1 \in 1..Len(si.me.profile.sample)
                     /\ Len(si.me.profile.sample[si.ret + 1].value) >= 1
    IN  [me |-> IF in_bounds
                THEN [si.me EXCEPT !.profile.sample[si.ret + 1].value[1] = @ + 1]
                ELSE si.me,
         ret |-> IF in_bounds THEN "Ok" ELSE "panic",
         frames |-> fr.ret, sample_index |-> si.ret]

\* new that computes the period in microseconds
new_period_micros(cfg) ==
    LET me0 == [config |-> cfg,
                string_index |-> EmptyMap,
                function_id |-> EmptyMap,
                location_id |-> EmptyMap,
                sample_index |-> EmptyMap,
                profile |-> [sample_type |-> <<>>,
                             sample |-> <<>>,
                             mapping |-> <<>>,
                             location |-> <<>>,
                             function |-> <<>>,
                             string_table |-> <<>>,
                             drop_frames |-> unset,
                             keep_frames |-> unset,
                             time_nanos |-> unset,
                             duration_nanos |-> unset,
                             period_type |-> None,
                             period |-> 1000000 \div cfg.sampling_rate,
                             comment |-> <<>>,
                             default_sample_type |-> unset]]
        e == get_string_index(me0, "")
        c == get_string_index(e.me, "count")
        me1 == [c.me EXCEPT !.profile.sample_type =
                                Append(@, [type |-> c.ret, unit |-> 0])]
        p == get_string_index(me1, "cpu")
        u == get_string_index(p.me, "nanoseconds")
    IN  [u.me EXCEPT !.profile.period_type = Some([type |-> p.ret, unit |-> u.ret])]

new(cfg) ==
    LET me0 == [config |-> cfg,
                string_index |-> EmptyMap,
                function_id |-> EmptyMap,
                location_id |-> EmptyMap,
                sample_index |-> EmptyMap,
                profile |-> [sample_type |-> <<>>,
                             sample |-> <<>>,
                             mapping |-> <<>>,
                             location |-> <<>>,
                             function |-> <<>>,
                             string_table |-> <<>>,
                             drop_frames |-> unset,
                             keep_frames |-> unset,
                             time_nanos |-> unset,
                             duration_nanos |-> unset,
                             period_type |-> None,
                             period |-> 1000000000 \div cfg.sampling_rate,
                             comment |-> <<>>,
                             default_sample_type |-> unset]]
        e == get_string_index(me0, "")
        c == get_string_index(e.me, "count")
        me1 == [c.me EXCEPT !.profile.sample_type =
                                Append(@, [type |-> c.ret, unit |-> 0])]
        p == get_string_index(me1, "cpu")
        u == get_string_index(p.me, "nanoseconds")
    IN  [u.me EXCEPT !.profile.period_type = Some([type |-> p.ret, unit |-> u.ret])]

\* self.profile.encode_to_vec(): the message the encoder is handed
encode_to_vec(p) ==
    <<p.sample_type, p.sample, p.mapping, p.location, p.function, p.string_table,
      p.drop_frames, p.keep_frames, p.time_nanos, p.duration_nanos, p.period_type,
      p.period, p.comment, p.default_sample_type>>

\* ------------------------------------------------------------------------
\* Actions
\* ------------------------------------------------------------------------
Install(me) ==
    /\ config' = me.config
    /\ string_index' = me.string_index
    /\ function_id' = me.function_id
    /\ location_id' = me.location_id
    /\ sample_index' = me.sample_index
    /\ profile' = me.profile

Init ==
    /\ \E cfg \in Config :
          LET me == new(cfg)
          IN  /\ config = me.config
              /\ string_index = me.string_index
              /\ function_id = me.function_id
              /\ location_id = me.location_id
              /\ sample_index = me.sample_index
              /\ profile = me.profile
              /\ last = [op |-> "new", arg |-> cfg, ret |-> "Ok"]
    /\ calls = <<>>
    /\ encoded = None

Record(stack) ==
    LET r == record(Self, stack)
    IN  /\ Install(r.me)
        /\ calls' = Append(calls, [stack |-> stack, frames |-> r.frames,
                                   sample_index |-> r.sample_index])
        /\ last' = [op |-> "record", arg |-> stack, ret |-> r.ret]
        /\ UNCHANGED encoded

\* write_all that drains the sample list into the encoder
WriteAll_drains(sinkOk) ==
    /\ encoded' = Some(encode_to_vec(profile))
    /\ last' = [op |-> "write_all", arg |-> sinkOk,
                ret |-> IF sinkOk THEN "Ok" ELSE "Err"]
    /\ profile' = [profile EXCEPT !.sample = <<>>]
    /\ UNCHANGED <<config, string_index, function_id, location_id, sample_index, calls>>

\* write_all(&self, w): sinkOk is whether w.write_all(bytes) succeeds; the `?`
\* returns the sink's error to the caller
WriteAll(sinkOk) ==
    /\ encoded' = Some(encode_to_vec(profile))
    /\ last' = [op |-> "write_all", arg |-> sinkOk,
                ret |-> IF sinkOk THEN "Ok" ELSE "Err"]
    /\ UNCHANGED <<pprof, calls>>

RecordAny ==
    /\ Len(calls) < MaxRecords
    /\ \E stack \in ProgramStacks : Record(stack)

Write ==
    \E sinkOk \in BOOLEAN : WriteAll(sinkOk)

Next ==
    \/ RecordAny
    \/ Write

Spec == Init /\ [][Next]_vars

\* The same stack key (thread id, frame sequence) recorded again and again;
\* the thread name and the pid that come with it may change.

RecordFirst ==
    /\ calls = <<>>
    /\ \E stack \in RepeatStacks : Record(stack)

RecordAgain ==
    /\ calls # <<>>
    /\ Len(calls) < MaxRepeat
    /\ \E pid \in Pids, tn \in ThreadNames :
          Record([calls[1].stack EXCEPT !.pid = pid, !.thread_name = tn])

NextRepeat ==
    \/ RecordFirst
    \/ RecordAgain

SpecRepeat == Init /\ [][NextRepeat]_vars

\* One thread resolving frames of every kind, one frame per call.
RecordFrames ==
    /\ Len(calls) < MaxFrameRecords
    /\ \E stack \in OneThreadStacks : Record(stack)

NextFrames == RecordFrames

SpecFrames == Init /\ [][NextFrames]_vars

\* Two threads recording every sequence of up to MaxDepth frames.
RecordOrder ==
    /\ Len(calls) < MaxOrderRecords
    /\ \E stack \in OrderStacks : Record(stack)

NextOrder == RecordOrder

SpecOrder == Init /\ [][NextOrder]_vars

\* Construction with any sampling rate, then record and write_all.
InitPeriod ==
    /\ \E cfg \in PeriodConfig :
          LET me == new(cfg)
          IN  /\ config = me.config
              /\ string_index = me.string_index
              /\ function_id = me.function_id
              /\ location_id = me.location_id
              /\ sample_index = me.sample_index
              /\ profile = me.profile
              /\ last = [op |-> "new", arg |-> cfg, ret |-> "Ok"]
    /\ calls = <<>>
    /\ encoded = None

RecordPeriod ==
    /\ Len(calls) < MaxPeriodRecords
    /\ \E stack \in PeriodStacks : Record(stack)

NextPeriod ==
    \/ RecordPeriod
    \/ Write

SpecPeriod == InitPeriod /\ [][NextPeriod]_vars

\* ------------------------------------------------------------------------
\* Views of the state used by the properties
\* ------------------------------------------------------------------------
StringAt(i) ==
    IF i + 1 \in 1..Len(profile.string_table) THEN Some(profile.string_table[i + 1]) ELSE None

LabelView(l) == [key |-> StringAt(l.key), str |-> StringAt(l.str), num |-> l.num]

\* the numbers of the labels of a sample whose key is k
NumLabels(smp, k) ==
    {smp.label[j].num : j \in {n \in 1..Len(smp.label) : StringAt(smp.label[n].key) = Some(k)}}

\* every (frame, Location id returned for it) of the record calls so far
Resolutions ==
    UNION {{[frame |-> calls[i].stack.frames[j], id |-> calls[i].frames[j]] :
               j \in 1..Len(calls[i].frames)} : i \in 1..Len(calls)}

ValidLocation(id) == id \in 1..Len(profile.location)

StoredLine(id) == profile.location[id].line[1].line

FunctionIdOf(id) == profile.location[id].line[1].function_id

SameFunction(f, g) == f.name = g.name /\ f.filename = g.filename

SameKey(s, t) == s.thread_id = t.thread_id /\ s.frames = t.frames

AllSameKey(cs) == \A i \in 1..Len(cs) : SameKey(cs[i].stack, cs[1].stack)

IsRecordStep == Len(calls') = Len(calls) + 1

NewCall == calls'[Len(calls')]

\* q is a subsequence of t: its elements occur in t in the same order
RECURSIVE IsSubsequence(_, _)
IsSubsequence(q, t) ==
    IF q = <<>> THEN TRUE
    ELSE IF t = <<>> THEN FALSE
    ELSE IF Head(q) = Head(t) THEN IsSubsequence(Tail(q), Tail(t))
    ELSE IsSubsequence(q, Tail(t))

\* ------------------------------------------------------------------------
\* C1. Dedup idempotence: after N >= 1 record calls that all carry the same
\* thread id and the same frame sequence, on a fresh profile, there is exactly
\* one Sample and its value is [N]; and every call after the first leaves the
\* sizes of the function list, the location list and the string table as they
\* were.
\* ------------------------------------------------------------------------
C1_OneSampleCountsN ==
    (calls # <<>> /\ AllSameKey(calls)) =>
        /\ Len(profile.sample) = 1
        /\ profile.sample[1].value = <<Len(calls)>>

C1_SizesKept ==
    (calls # <<>> /\ IsRecordStep /\ AllSameKey(calls')) =>
        /\ Len(profile'.function) = Len(profile.function)
        /\ Len(profile'.location) = Len(profile.location)
        /\ Len(profile'.string_table) = Len(profile.string_table)

C1_DedupIdempotence == []C1_OneSampleCountsN /\ [][C1_SizesKept]_vars

C1_Witness ==
    /\ Len(calls) = 3
    /\ Len(calls[1].stack.frames) = 2
    /\ calls[1].stack.thread_name # calls[3].stack.thread_name
    /\ profile.sample[1].value = <<3>>

\* ------------------------------------------------------------------------
\* C2. Per-thread isolation: for every (thread id, location-id sequence) that
\* was recorded there is exactly one Sample with these location ids and a
\* thread_id label of that thread, its counter is the number of record calls of
\* that thread with that sequence, and no two Samples agree on both the
\* thread_id label and the location ids.
\* ------------------------------------------------------------------------
SamplesOf(tid, ids) ==
    {k \in 1..Len(profile.sample) :
        /\ profile.sample[k].location_id = ids
        /\ NumLabels(profile.sample[k], "thread_id") = {tid}}

CallsOf(tid, ids) ==
    {j \in 1..Len(calls) : calls[j].stack.thread_id = tid /\ calls[j].frames = ids}

C2_PerThreadIsolation ==
    /\ \A i \in 1..Len(calls) :
          LET tid == calls[i].stack.thread_id
              ids == calls[i].frames
          IN  /\ Cardinality(SamplesOf(tid, ids)) = 1
              /\ \A k \in SamplesOf(tid, ids) :
                    profile.sample[k].value = <<Cardinality(CallsOf(tid, ids))>>
    /\ \A k1, k2 \in 1..Len(profile.sample) :
          (/\ profile.sample[k1].location_id = profile.sample[k2].location_id
           /\ NumLabels(profile.sample[k1], "thread_id")
                = NumLabels(profile.sample[k2], "thread_id")) => k1 = k2

C2_Witness ==
    /\ Len(calls) = 2
    /\ calls[1].stack.frames = calls[2].stack.frames
    /\ Len(calls[1].stack.frames) = 2
    /\ calls[1].stack.thread_id = 1
    /\ calls[2].stack.thread_id = 5
    /\ Len(profile.sample) = 2
    /\ profile.sample[1].location_id = profile.sample[2].location_id
    /\ NumLabels(profile.sample[1], "thread_id") = {1}
    /\ NumLabels(profile.sample[2], "thread_id") = {5}

\* ------------------------------------------------------------------------
\* C3. Line display off.  As stated: with show_line_numbers = false two frames
\* of the same function that differ in their line get the same Location id,
\* whose stored line is 0.
\* ------------------------------------------------------------------------
OtherLine(p, q) == SameFunction(p.frame, q.frame) /\ p.frame.line # q.frame.line

C3_CollapseWhenOff ==
    ~config.show_line_numbers =>
        \A p, q \in Resolutions :
            OtherLine(p, q) =>
                /\ p.id = q.id
                /\ ValidLocation(p.id)
                /\ StoredLine(p.id) = 0

\* C3 as amended: with show_line_numbers = false two frames of the same
\* function that differ in their line get two different Location ids (two
\* entries of the location list), and the stored line of both is 0.
C3_DistinctZeroedWhenOff ==
    ~config.show_line_numbers =>
        \A p, q \in Resolutions :
            OtherLine(p, q) =>
                /\ p.id # q.id
                /\ ValidLocation(p.id) /\ ValidLocation(q.id)
                /\ StoredLine(p.id) = 0
                /\ StoredLine(q.id) = 0

C3_Witness ==
    /\ ~config.show_line_numbers
    /\ \E p, q \in Resolutions : OtherLine(p, q) /\ p.frame.line = 10 /\ q.frame.line = 20
    /\ Len(profile.location) = 2

\* ------------------------------------------------------------------------
\* C4. The line policy touches the stored line only: whatever
\* show_line_numbers is, two resolved frames have the same Location id exactly
\* when they have the same name, filename and line; every Location was created
\* by a resolved frame and stores that frame's line when show_line_numbers is
\* true and 0 when it is false.
\* ------------------------------------------------------------------------
C4_KeyUsesTrueLine ==
    /\ \A p, q \in Resolutions : (p.id = q.id) <=> (p.frame = q.frame)
    /\ \A p \in Resolutions :
          /\ ValidLocation(p.id)
          /\ StoredLine(p.id) = IF config.show_line_numbers THEN p.frame.line ELSE 0
    /\ \A id \in 1..Len(profile.location) : \E p \in Resolutions : p.id = id

C4_Witness ==
    /\ ~config.show_line_numbers
    /\ Len(calls) = 3
    /\ calls[1].stack.frames = calls[3].stack.frames
    /\ calls[1].frames = calls[3].frames
    /\ SameFunction(calls[1].stack.frames[1], calls[2].stack.frames[1])
    /\ calls[1].stack.frames[1].line # calls[2].stack.frames[1].line
    /\ calls[1].frames # calls[2].frames

\* ------------------------------------------------------------------------
\* C5. Label immutability: no step changes the label list of an existing
\* Sample; a record call whose (thread id, frame sequence) was recorded before
\* creates no Sample, whatever thread name and pid it carries, and adds 1 to
\* the counter of the Sample of the earlier call.
\* ------------------------------------------------------------------------
C5_LabelsKept ==
    /\ Len(profile'.sample) >= Len(profile.sample)
    /\ \A k \in 1..Len(profile.sample) :
          profile'.sample[k].label = profile.sample[k].label
    /\ IsRecordStep =>
          \A i \in 1..Len(calls) :
              SameKey(calls[i].stack, NewCall.stack) =>
                  /\ Len(profile'.sample) = Len(profile.sample)
                  /\ NewCall.sample_index = calls[i].sample_index
                  /\ profile'.sample[NewCall.sample_index + 1].value[1]
                       = profile.sample[NewCall.sample_index + 1].value[1] + 1

C5_LabelImmutability == [][C5_LabelsKept]_vars

C5_Witness ==
    /\ Len(calls) = 2
    /\ calls[1].stack.thread_name = None
    /\ calls[2].stack.thread_name = Some("main")
    /\ calls[2].stack.pid # calls[1].stack.pid
    /\ Len(profile.sample) = 1
    /\ Len(profile.sample[1].label) = 2
    /\ NumLabels(profile.sample[1], "pid") = {calls[1].stack.pid}
    /\ profile.sample[1].value = <<2>>

\* ------------------------------------------------------------------------
\* C6. Function key independence from line: two resolved frames have the same
\* Function id exactly when their name and their filename are equal; frames of
\* one function with different lines share one Function entry and have
\* different Location ids.
\* ------------------------------------------------------------------------
FunctionsNamed(f) ==
    {k \in 1..Len(profile.function) :
        /\ StringAt(profile.function[k].name) = Some(f.name)
        /\ StringAt(profile.function[k].filename) = Some(f.filename)}

C6_FunctionKey ==
    \A p, q \in Resolutions :
        /\ ValidLocation(p.id) /\ ValidLocation(q.id)
        /\ (FunctionIdOf(p.id) = FunctionIdOf(q.id)) <=> SameFunction(p.frame, q.frame)
        /\ FunctionsNamed(p.frame) = {FunctionIdOf(p.id)}
        /\ OtherLine(p, q) => p.id # q.id

C6_Witness ==
    \E p, q, r, t \in Resolutions :
        /\ OtherLine(p, q)
        /\ FunctionIdOf(p.id) = FunctionIdOf(q.id)
        /\ r.frame.name = p.frame.name /\ r.frame.filename # p.frame.filename
        /\ t.frame.name # p.frame.name /\ t.frame.filename = p.frame.filename
        /\ Len(profile.function) = 3

\* ------------------------------------------------------------------------
\* C7. String interning uniqueness: the string table holds no string twice and
\* its entry 0 is ""; the lookup map and the table agree; interning a string
\* twice gives the same index, interning two different strings gives two
\* indices; no step changes the string at an index.
\* ------------------------------------------------------------------------
AllStrings ==
    Names \cup Filenames \cup {"", "main", "count", "times", "cpu", "nanoseconds",
                               "thread_name", "thread_id", "pid"}

C7_TableUnique ==
    /\ Len(profile.string_table) >= 1
    /\ profile.string_table[1] = ""
    /\ \A i, j \in 1..Len(profile.string_table) :
          profile.string_table[i] = profile.string_table[j] => i = j
    /\ DOMAIN string_index = {profile.string_table[i] : i \in 1..Len(profile.string_table)}
    /\ \A str \in DOMAIN string_index : StringAt(string_index[str]) = Some(str)
    /\ \A s1, s2 \in AllStrings :
          LET a == get_string_index(Self, s1)
              b == get_string_index(a.me, s2)
          IN  /\ (a.ret = b.ret) <=> (s1 = s2)
              /\ s1 \in DOMAIN string_index => a.ret = string_index[s1]

C7_EntriesKept ==
    /\ Len(profile'.string_table) >= Len(profile.string_table)
    /\ \A i \in 1..Len(profile.string_table) :
          profile'.string_table[i] = profile.string_table[i]

C7_StringInterning == []C7_TableUnique /\ [][C7_EntriesKept]_vars

C7_Witness ==
    /\ Len(calls) = 2
    /\ calls[1].stack.thread_name = Some("main")
    /\ calls[2].stack.thread_name = Some("main")
    /\ calls[1].stack.thread_id # calls[2].stack.thread_id
    /\ Len(calls[1].stack.frames) = 2
    /\ calls[1].stack.frames = calls[2].stack.frames
    /\ Len(profile.sample) = 2
    /\ Len(profile.string_table) = 11

\* ------------------------------------------------------------------------
\* C8. End-to-end scenario: sampling_rate = 100, show_line_numbers = true, the
\* stack {thread_id 5, pid 100, thread_name "main", frames [(foo, a.py, 10),
\* (bar, a.py, 20)]} recorded three times gives 1 Sample of value [3],
\* 2 Functions, 2 Locations, the labels thread_name = "main", thread_id = 5,
\* pid = 100, and a string table that holds "", "count", "times", "cpu",
\* "nanoseconds", "foo", "a.py", "bar" in this order.
\* ------------------------------------------------------------------------
E2EStack ==
    [thread_id |-> 5, pid |-> 100, thread_name |-> Some("main"),
     frames |-> <<[name |-> "foo", filename |-> "a.py", line |-> 10],
                  [name |-> "bar", filename |-> "a.py", line |-> 20]>>]

E2ERecorded ==
    /\ config = [sampling_rate |-> 100, show_line_numbers |-> TRUE]
    /\ Len(calls) = 3
    /\ \A i \in 1..3 : calls[i].stack = E2EStack

E2EAggregates ==
    /\ Len(profile.sample) = 1
    /\ profile.sample[1].value = <<3>>
    /\ Len(profile.function) = 2
    /\ Len(profile.location) = 2
    /\ {LabelView(profile.sample[1].label[j]) : j \in 1..Len(profile.sample[1].label)}
         = {[key |-> Some("thread_name"), str |-> Some("main"), num |-> 0],
            [key |-> Some("thread_id"), str |-> Some(""), num |-> 5],
            [key |-> Some("pid"), str |-> Some(""), num |-> 100]}

C8_EndToEnd ==
    E2ERecorded =>
        /\ E2EAggregates
        /\ IsSubsequence(<<"", "count", "times", "cpu", "nanoseconds", "foo", "a.py", "bar">>,
                         profile.string_table)

\* ------------------------------------------------------------------------
\* C9. Construction state: right after new(config) the string table holds "",
\* "count", "times", "cpu", "nanoseconds", sample_type is one value type of type
\* "count" and unit "times", period_type is "cpu"/"nanoseconds", and the
\* function, location and sample lists are empty.
\* ------------------------------------------------------------------------
Constructed == calls = <<>> /\ last.op = "new"

C9_ConstructionState ==
    Constructed =>
        /\ IsSubsequence(<<"", "count", "times", "cpu", "nanoseconds">>, profile.string_table)
        /\ Len(profile.sample_type) = 1
        /\ StringAt(profile.sample_type[1].type) = Some("count")
        /\ StringAt(profile.sample_type[1].unit) = Some("times")
        /\ Len(profile.period_type) = 1
        /\ StringAt(profile.period_type[1].type) = Some("cpu")
        /\ StringAt(profile.period_type[1].unit) = Some("nanoseconds")
        /\ profile.function = <<>>
        /\ profile.location = <<>>
        /\ profile.sample = <<>>

\* ------------------------------------------------------------------------
\* C10. write_all is read-only and repeatable: a write_all step changes no
\* field of the profile object, whether the sink accepts the bytes or not; it
\* returns Err exactly when the sink fails; it encodes the profile as it is,
\* and a write_all right after a write_all encodes the same bytes.
\* ------------------------------------------------------------------------
C10_WriteStep ==
    last'.op = "write_all" =>
        /\ pprof' = pprof
        /\ calls' = calls
        /\ last'.ret = (IF last'.arg THEN "Ok" ELSE "Err")
        /\ encoded' = Some(encode_to_vec(profile))
        /\ last.op = "write_all" => encoded' = encoded

C10_WriteReadOnly == [][C10_WriteStep]_vars

C10_Witness ==
    /\ last.op = "write_all"
    /\ last.ret = "Err"
    /\ Len(profile.sample) = 2
    /\ encoded = Some(encode_to_vec(profile))

\* ------------------------------------------------------------------------
\* C11. Append-only tables: in every step the string table, the function list,
\* the location list and the sample list of the state before are prefixes of
\* those after, but for the value of at most one Sample; no key leaves a lookup
\* map and no key is mapped to another id.
\* ------------------------------------------------------------------------
IsPrefix(a, b) == Len(a) <= Len(b) /\ \A i \in 1..Len(a) : b[i] = a[i]

MapKept(f, g) == DOMAIN f \subseteq DOMAIN g /\ \A k \in DOMAIN f : g[k] = f[k]

ChangedSamples == {k \in 1..Len(profile.sample) : profile'.sample[k] # profile.sample[k]}

C11_AppendOnlyStep ==
    /\ IsPrefix(profile.string_table, profile'.string_table)
    /\ IsPrefix(profile.function, profile'.function)
    /\ IsPrefix(profile.location, profile'.location)
    /\ Len(profile.sample) <= Len(profile'.sample)
    /\ \A k \in 1..Len(profile.sample) :
          /\ profile'.sample[k].location_id = profile.sample[k].location_id
          /\ profile'.sample[k].label = profile.sample[k].label
          /\ Len(profile'.sample[k].value) = Len(profile.sample[k].value)
    /\ Cardinality(ChangedSamples) <= 1
    /\ MapKept(string_index, string_index')
    /\ MapKept(function_id, function_id')
    /\ MapKept(location_id, location_id')
    /\ DOMAIN sample_index \subseteq DOMAIN sample_index'
    /\ \A tid \in DOMAIN sample_index : MapKept(sample_index[tid], sample_index'[tid])

C11_AppendOnly == [][C11_AppendOnlyStep]_vars

C11_Witness ==
    /\ Len(calls) = 2
    /\ calls[1].stack.thread_id = calls[2].stack.thread_id
    /\ Len(calls[1].frames) = 1
    /\ Len(calls[2].frames) = 2
    /\ Len(profile.sample) = 2
    /\ Cardinality(DOMAIN sample_index[calls[1].stack.thread_id]) = 2
    /\ Len(profile.function) = 2

\* ------------------------------------------------------------------------
\* C12. Dense ids: the k-th Function (from 0) has id k + 1 and so has the k-th
\* Location; the ids the lookup maps hold are exactly 1..len(function),
\* 1..len(location) and, for strings, 0..len(string_table) - 1; no step changes
\* the id of a key, and resolving a frame again returns the id it got before.
\* ------------------------------------------------------------------------
Range(f) == {f[k] : k \in DOMAIN f}

C12_IdsDense ==
    /\ \A k \in 1..Len(profile.function) : profile.function[k].id = k
    /\ \A k \in 1..Len(profile.location) : profile.location[k].id = k
    /\ Range(function_id) = 1..Len(profile.function)
    /\ Range(location_id) = 1..Len(profile.location)
    /\ Range(string_index) = 0..(Len(profile.string_table) - 1)
    /\ Cardinality(DOMAIN function_id) = Len(profile.function)
    /\ Cardinality(DOMAIN location_id) = Len(profile.location)
    /\ Cardinality(DOMAIN string_index) = Len(profile.string_table)
    /\ \A p \in Resolutions : add_frame(Self, p.frame) = [me |-> Self, ret |-> p.id]

C12_IdsKept ==
    /\ MapKept(string_index, string_index')
    /\ MapKept(function_id, function_id')
    /\ MapKept(location_id, location_id')

C12_DenseIds == []C12_IdsDense /\ [][C12_IdsKept]_vars

C12_Witness ==
    /\ Len(calls) = 4
    /\ Len(profile.function) = 3
    /\ Len(profile.location) = 3
    /\ calls[4].frames = calls[1].frames
    /\ Len(profile.string_table) >= 12

\* ------------------------------------------------------------------------
\* C13. Period: period is 1_000_000_000 divided by sampling_rate, rounded
\* towards zero (10_000_000 for 100, 1_000_000_000 for 1); no record and no
\* write_all step changes period, sample_type or period_type.
\* ------------------------------------------------------------------------
C13_PeriodValue ==
    LET rate == config.sampling_rate
        rest == 1000000000 - profile.period * rate
    IN  /\ 0 <= rest /\ rest < rate
        /\ rate = 100 => profile.period = 10000000
        /\ rate = 1 => profile.period = 1000000000

C13_MetadataKept ==
    /\ profile'.period = profile.period
    /\ profile'.sample_type = profile.sample_type
    /\ profile'.period_type = profile.period_type
    /\ config' = config

C13_Period == []C13_PeriodValue /\ [][C13_MetadataKept]_vars

C13_Witness ==
    /\ config.sampling_rate = 3
    /\ profile.period = 333333333
    /\ Len(calls) = 2
    /\ Len(profile.sample) = 2
    /\ last.op = "write_all"

\* ------------------------------------------------------------------------
\* C14. A repeat mutates nothing: a record call whose (thread id, frame
\* sequence) was recorded before leaves the string table, the function,
\* location and sample lists and the four lookup maps as they were, but for the
\* counter of its Sample, which grows by 1; a thread name it carries is not
\* interned.  get_string_index, get_function_id and get_location_id on a key
\* that is present return its id and leave the state as it was.
\* ------------------------------------------------------------------------
SeenBefore(stack) == \E i \in 1..Len(calls) : SameKey(calls[i].stack, stack)

C14_RepeatStep ==
    (IsRecordStep /\ SeenBefore(NewCall.stack)) =>
        /\ profile'.string_table = profile.string_table
        /\ profile'.function = profile.function
        /\ profile'.location = profile.location
        /\ string_index' = string_index
        /\ function_id' = function_id
        /\ location_id' = location_id
        /\ sample_index' = sample_index
        /\ Len(profile'.sample) = Len(profile.sample)
        /\ NewCall.sample_index + 1 \in 1..Len(profile.sample)
        /\ \A k \in 1..Len(profile.sample) :
              IF k = NewCall.sample_index + 1
              THEN profile'.sample[k] =
                       [profile.sample[k] EXCEPT !.value = <<profile.sample[k].value[1] + 1>>]
              ELSE profile'.sample[k] = profile.sample[k]

C14_LookupsPure ==
    /\ \A str \in DOMAIN string_index :
          get_string_index(Self, str) = [me |-> Self, ret |-> string_index[str]]
    /\ \A key \in DOMAIN function_id :
          get_function_id(Self, key) = [me |-> Self, ret |-> function_id[key]]
    /\ \A key \in DOMAIN location_id :
          get_location_id(Self, key) = [me |-> Self, ret |-> location_id[key]]

C14_RepeatMutatesNothing == []C14_LookupsPure /\ [][C14_RepeatStep]_vars

C14_Witness ==
    /\ Len(calls) = 3
    /\ calls[1].stack.thread_name = None
    /\ calls[2].stack.thread_name = Some("main")
    /\ Len(calls[1].frames) = 2
    /\ "main" \notin DOMAIN string_index
    /\ "thread_name" \notin DOMAIN string_index
    /\ profile.sample[1].value = <<3>>

\* ------------------------------------------------------------------------
\* C15. Labels at creation: a record call that creates a Sample appends it at
\* the next index, with value [0] before the increment (so [1] after the
\* call); the labels of every Sample are, in this order, the string label
\* thread_name of the creating stack if it has a thread name, the numeric
\* label thread_id and the numeric label pid of that stack: 2 or 3 labels, one
\* thread_id label and one pid label.
\* ------------------------------------------------------------------------
ExpectedLabels(stack) ==
    (IF stack.thread_name # None
     THEN <<[key |-> Some("thread_name"), str |-> Some(stack.thread_name[1]),
             num |-> 0, num_unit |-> 0]>>
     ELSE <<>>)
    \o <<[key |-> Some("thread_id"), str |-> Some(""), num |-> stack.thread_id, num_unit |-> 0],
         [key |-> Some("pid"), str |-> Some(""), num |-> stack.pid, num_unit |-> 0]>>

LabelViews(smp) ==
    [j \in 1..Len(smp.label) |->
        [key |-> StringAt(smp.label[j].key), str |-> StringAt(smp.label[j].str),
         num |-> smp.label[j].num, num_unit |-> smp.label[j].num_unit]]

\* the record calls that used the k-th Sample (from 1), the first one created it
UsersOf(k) == {i \in 1..Len(calls) : calls[i].sample_index + 1 = k}

LabelsKeyed(smp, key) == {j \in 1..Len(smp.label) : StringAt(smp.label[j].key) = Some(key)}

C15_LabelsOfCreator ==
    \A k \in 1..Len(profile.sample) :
        /\ UsersOf(k) # {}
        /\ \A i \in UsersOf(k) :
              (\A j \in UsersOf(k) : i <= j) =>
                  LabelViews(profile.sample[k]) = ExpectedLabels(calls[i].stack)
        /\ Len(profile.sample[k].label) \in {2, 3}
        /\ Cardinality(LabelsKeyed(profile.sample[k], "thread_id")) = 1
        /\ Cardinality(LabelsKeyed(profile.sample[k], "pid")) = 1
        /\ (Len(profile.sample[k].label) = 3) <=>
              (Cardinality(LabelsKeyed(profile.sample[k], "thread_name")) = 1)

C15_CreateStep ==
    (IsRecordStep /\ ~SeenBefore(NewCall.stack)) =>
        LET fr == add_frames(Self, NewCall.stack.frames)
            si == get_sample_index(fr.me, fr.ret, NewCall.stack)
        IN  /\ Len(profile'.sample) = Len(profile.sample) + 1
            /\ NewCall.sample_index = Len(profile.sample)
            /\ si.ret = Len(profile.sample)
            /\ Len(si.me.profile.sample) = Len(profile.sample) + 1
            /\ si.me.profile.sample[si.ret + 1].value = <<0>>
            /\ profile'.sample[si.ret + 1] =
                   [si.me.profile.sample[si.ret + 1] EXCEPT !.value = <<1>>]

C15_LabelsAtCreation == []C15_LabelsOfCreator /\ [][C15_CreateStep]_vars

C15_Witness ==
    /\ Len(calls) = 2
    /\ Len(profile.sample) = 2
    /\ calls[1].stack.thread_name = Some("main")
    /\ calls[2].stack.thread_name = None
    /\ Len(profile.sample[1].label) = 3
    /\ Len(profile.sample[2].label) = 2
    /\ calls[1].stack.thread_id # calls[2].stack.thread_id

\* ------------------------------------------------------------------------
\* C16. Frame order is preserved: the Sample a record call used has as
\* location_ids the Location ids of the frames of the stack, in the order and
\* the number they came in (a frame twice gives its id twice); an empty stack
\* gives the empty sequence and adds no Function and no Location; two calls use
\* the same Sample exactly when thread id and frame sequence are equal, so the
\* same frames in another order give another Sample.
\* ------------------------------------------------------------------------
LocationIdOf(frame) ==
    IF frame.name \in DOMAIN string_index /\ frame.filename \in DOMAIN string_index
    THEN LET fkey == [name |-> string_index[frame.name],
                      filename |-> string_index[frame.filename]]
         IN  IF fkey \in DOMAIN function_id
             THEN LET lkey == [function_id |-> function_id[fkey], line |-> frame.line]
                  IN  IF lkey \in DOMAIN location_id THEN Some(location_id[lkey]) ELSE None
             ELSE None
    ELSE None

C16_OrderKept ==
    /\ \A i \in 1..Len(calls) :
          LET c == calls[i]
          IN  /\ c.sample_index + 1 \in 1..Len(profile.sample)
              /\ profile.sample[c.sample_index + 1].location_id = c.frames
              /\ Len(c.frames) = Len(c.stack.frames)
              /\ \A j \in 1..Len(c.stack.frames) :
                    LocationIdOf(c.stack.frames[j]) = Some(c.frames[j])
    /\ \A i, j \in 1..Len(calls) :
          (calls[i].sample_index = calls[j].sample_index)
              <=> SameKey(calls[i].stack, calls[j].stack)

C16_EmptyStackStep ==
    (IsRecordStep /\ NewCall.stack.frames = <<>>) =>
        /\ NewCall.frames = <<>>
        /\ profile'.function = profile.function
        /\ profile'.location = profile.location

C16_FrameOrder == []C16_OrderKept /\ [][C16_EmptyStackStep]_vars

C16_Witness ==
    /\ Len(calls) = 2
    /\ calls[1].stack.thread_id = calls[2].stack.thread_id
    /\ Len(calls[1].stack.frames) = 2
    /\ calls[1].stack.frames[1] # calls[1].stack.frames[2]
    /\ calls[2].stack.frames = <<calls[1].stack.frames[2], calls[1].stack.frames[1]>>
    /\ Len(profile.sample) = 2
    /\ profile.sample[1].location_id = <<1, 2>>
    /\ profile.sample[2].location_id = <<2, 1>>

\* ------------------------------------------------------------------------
\* C17. No dangling references: every location id of every Sample is the id of
\* an existing Location; every Location has one line entry whose function_id is
\* the id of an existing Function; every string index of a Function, a Label,
\* sample_type and period_type is an index of the string table.
\* ------------------------------------------------------------------------
ValidString(i) == i \in 0..(Len(profile.string_table) - 1)

ValidFunction(id) == id \in 1..Len(profile.function) /\ profile.function[id].id = id

C17_NoDanglingReferences ==
    /\ \A k \in 1..Len(profile.sample) :
          /\ \A j \in 1..Len(profile.sample[k].location_id) :
                LET id == profile.sample[k].location_id[j]
                IN  ValidLocation(id) /\ profile.location[id].id = id
          /\ \A j \in 1..Len(profile.sample[k].label) :
                /\ ValidString(profile.sample[k].label[j].key)
                /\ ValidString(profile.sample[k].label[j].str)
    /\ \A k \in 1..Len(profile.location) :
          /\ Len(profile.location[k].line) = 1
          /\ ValidFunction(profile.location[k].line[1].function_id)
    /\ \A k \in 1..Len(profile.function) :
          /\ ValidString(profile.function[k].name)
          /\ ValidString(profile.function[k].filename)
    /\ \A k \in 1..Len(profile.sample_type) :
          /\ ValidString(profile.sample_type[k].type)
          /\ ValidString(profile.sample_type[k].unit)
    /\ \A k \in 1..Len(profile.period_type) :
          /\ ValidString(profile.period_type[k].type)
          /\ ValidString(profile.period_type[k].unit)

C17_Witness ==
    /\ Len(profile.sample) = 2
    /\ Len(profile.sample[1].location_id) = 2
    /\ Len(profile.sample[1].label) = 3
    /\ Len(profile.sample[2].location_id) = 1
    /\ Len(profile.location) = 2
    /\ Len(profile.function) = 2
    /\ Len(profile.string_table) = 11

\* ------------------------------------------------------------------------
\* C18. Count conservation: the counters of all Samples add up to the number
\* of record calls made; every Sample has a value of length 1 that is at least
\* 1; a record step changes the counter of exactly one Sample, by exactly 1.
\* ------------------------------------------------------------------------
RECURSIVE SumOfCounters(_)
SumOfCounters(samples) ==
    IF samples = <<>> THEN 0
    ELSE Head(samples).value[1] + SumOfCounters(Tail(samples))

CounterBefore(k) == IF k <= Len(profile.sample) THEN profile.sample[k].value[1] ELSE 0

C18_CountsAddUp ==
    /\ \A k \in 1..Len(profile.sample) :
          /\ Len(profile.sample[k].value) = 1
          /\ profile.sample[k].value[1] >= 1
    /\ SumOfCounters(profile.sample) = Len(calls)

C18_OneIncrementStep ==
    IsRecordStep =>
        /\ Len(profile'.sample) >= Len(profile.sample)
        /\ Cardinality({k \in 1..Len(profile'.sample) :
                           profile'.sample[k].value[1] # CounterBefore(k)}) = 1
        /\ \A k \in 1..Len(profile'.sample) :
              profile'.sample[k].value[1] \in {CounterBefore(k), CounterBefore(k) + 1}

C18_CountConservation == []C18_CountsAddUp /\ [][C18_OneIncrementStep]_vars

C18_Witness ==
    /\ Len(calls) = 2
    /\ Len(profile.sample) = 1
    /\ profile.sample[1].value = <<2>>
    /\ Len(profile.sample[1].location_id) = 2
    /\ calls[1].stack.thread_name # calls[2].stack.thread_name

\* ------------------------------------------------------------------------
\* C19. record never fails: every record call returns Ok, also for an empty
\* frame list and an absent thread name; every index the nested sample lookup
\* holds under (thread id, ids) is below len(sample), and the Sample there has
\* these location ids and a thread_id label of that thread; every Sample index
\* is held under exactly one key.
\* ------------------------------------------------------------------------
SampleKeys ==
    UNION {{<<tid, ids>> : ids \in DOMAIN sample_index[tid]} : tid \in DOMAIN sample_index}

C19_RecordNeverFails ==
    /\ last.op = "record" => last.ret = "Ok"
    /\ \A key \in SampleKeys :
          LET i == sample_index[key[1]][key[2]]
          IN  /\ i \in 0..(Len(profile.sample) - 1)
              /\ profile.sample[i + 1].location_id = key[2]
              /\ NumLabels(profile.sample[i + 1], "thread_id") = {key[1]}
    /\ \A i \in 0..(Len(profile.sample) - 1) :
          Cardinality({key \in SampleKeys : sample_index[key[1]][key[2]] = i}) = 1

C19_Witness ==
    /\ Len(calls) = 2
    /\ last.op = "record"
    /\ last.ret = "Ok"
    /\ last.arg.frames = <<>>
    /\ last.arg.thread_name = None
    /\ Len(calls[1].frames) = 2
    /\ calls[1].stack.thread_id = calls[2].stack.thread_id
    /\ Cardinality(SampleKeys) = 2
    /\ profile.sample[2].location_id = <<>>

====
